---- MODULE Spec2Model ----
(***************************************************************************)
(* DBBox: the command-line front end (dbbox/cli.py) and the SQLite         *)
(* database manager (dbbox/manager.py).                                    *)
(*                                                                         *)
(* Strings are sequences of one-character strings, so that split, strip,   *)
(* upper, lower and startswith are computed as the code computes them.     *)
(* The embedded engine is modelled at the statements the manager issues:   *)
(* column definitions are tokenised, a column's affinity is derived from   *)
(* its declared type, `INTEGER PRIMARY KEY` aliases the rowid, and         *)
(* identifiers are matched case-insensitively.                             *)
(***************************************************************************)
EXTENDS Integers, Sequences, FiniteSets, TLC

\* ------------------------------------------------------------------ bounds
MaxRows  == 2      \* rows per table
MaxRowId == 3      \* largest rowid the engine hands out
MaxLines == 3      \* lines read from standard input by one import
MaxResultRows == 2 \* rows of a result set handed to a formatter

\* ----------------------------------------------------------------- strings
LowerAlpha == <<"a","b","c","d","e","f","g","h","i","j","k","l","m","n","o","p","q","r","s","t","u","v","w","x","y","z">>
UpperAlpha == <<"A","B","C","D","E","F","G","H","I","J","K","L","M","N","O","P","Q","R","S","T","U","V","W","X","Y","Z">>
Digits     == <<"0","1","2","3","4","5","6","7","8","9">>

IsIn(c, alpha) == \E i \in 1..Len(alpha) : alpha[i] = c
IndexIn(c, alpha) == CHOOSE i \in 1..Len(alpha) : alpha[i] = c

lowerChar(c) == IF IsIn(c, UpperAlpha) THEN LowerAlpha[IndexIn(c, UpperAlpha)] ELSE c
upperChar(c) == IF IsIn(c, LowerAlpha) THEN UpperAlpha[IndexIn(c, LowerAlpha)] ELSE c

\* str.lower() / str.upper()
lower(s) == [i \in 1..Len(s) |-> lowerChar(s[i])]
upper(s) == [i \in 1..Len(s) |-> upperChar(s[i])]

\* str.startswith(p)
startswith(s, p) == Len(s) >= Len(p) /\ SubSeq(s, 1, Len(p)) = p

\* c in s
HasChar(s, c) == \E i \in 1..Len(s) : s[i] = c

\* p in s, for a substring p
HasSubstr(s, p) == \E i \in 1..(Len(s) - Len(p) + 1) : SubSeq(s, i, i + Len(p) - 1) = p

\* s.split(c, 1) for a string that contains c
split1(s, c) ==
    LET i == CHOOSE k \in 1..Len(s) : s[k] = c /\ \A j \in 1..(k-1) : s[j] # c
    IN  <<SubSeq(s, 1, i - 1), SubSeq(s, i + 1, Len(s))>>

IsSpace(c) == c \in {" ", "\t", "\n"}

\* str.strip()
RECURSIVE lstrip(_)
lstrip(s) == IF s # <<>> /\ IsSpace(Head(s)) THEN lstrip(Tail(s)) ELSE s
RECURSIVE rstrip(_)
rstrip(s) == IF s # <<>> /\ IsSpace(s[Len(s)]) THEN rstrip(SubSeq(s, 1, Len(s) - 1)) ELSE s
\* `line = line.strip()` left out
stripMutant(s) == s
strip(s) == rstrip(lstrip(s))

\* str.split(): the maximal runs of non-whitespace characters, in order
RECURSIVE splitAcc(_, _, _)
splitAcc(s, cur, acc) ==
    IF s = <<>> THEN (IF cur = <<>> THEN acc ELSE Append(acc, cur))
    ELSE IF IsSpace(Head(s))
         THEN splitAcc(Tail(s), <<>>, IF cur = <<>> THEN acc ELSE Append(acc, cur))
         ELSE splitAcc(Tail(s), Append(cur, Head(s)), acc)
split(s) == splitAcc(s, <<>>, <<>>)

\* ", ".join / " ".join with a one-character separator kept for tokens
RECURSIVE joinSp(_)
joinSp(toks) ==
    IF toks = <<>> THEN <<>>
    ELSE IF Len(toks) = 1 THEN toks[1]
    ELSE toks[1] \o <<" ">> \o joinSp(Tail(toks))

\* text of decimal digits only (the integer literals of the input sets)
IsIntText(s) == s # <<>> /\ \A i \in 1..Len(s) : IsIn(s[i], Digits)
RECURSIVE ToInt(_)
ToInt(s) == IF s = <<>> THEN 0
            ELSE 10 * ToInt(SubSeq(s, 1, Len(s) - 1)) + (IndexIn(s[Len(s)], Digits) - 1)

\* ------------------------------------------------------------ Python values
\* what sqlite3 hands back for a cell: None, an int or a str
PyNone   == [k |-> "null", i |-> 0, s |-> <<>>]
PyInt(n) == [k |-> "int",  i |-> n, s |-> <<>>]
PyStr(t) == [k |-> "text", i |-> 0, s |-> t]

\* ------------------------------------------------------------ schema codec
STR_id         == <<"i","d">>
STR_id_sp      == <<"i","d"," ">>
SyntheticId    == <<"i","d"," ","I","N","T","E","G","E","R"," ","P","R","I","M","A","R","Y"," ","K","E","Y"," ","A","U","T","O","I","N","C","R","E","M","E","N","T">>

\* the first spec of the list that has no ':' (the one the loop raises on), or <<>> 
RECURSIVE FirstBadSpec(_)
FirstBadSpec(schema) ==
    IF schema = <<>> THEN <<>>
    ELSE IF ~HasChar(Head(schema), ":") THEN <<Head(schema)>>
    ELSE FirstBadSpec(Tail(schema))

\* columns.append(f"{col_name} {col_type.upper()}") for every spec
ParsedColumns(schema) ==
    [i \in 1..Len(schema) |->
        LET nt == split1(schema[i], ":") IN nt[1] \o <<" ">> \o upper(nt[2])]

\* any(c.lower().startswith('id ') for c in columns)
HasIdColumn(columns) == \E i \in 1..Len(columns) : startswith(lower(columns[i]), STR_id_sp)

\* columns.insert(0, ...) where append was meant
BuildColumnsMutant(schema) ==
    LET columns == ParsedColumns(schema)
    IN  IF HasIdColumn(columns) THEN columns ELSE Append(columns, SyntheticId)
\* the column list create_table hands to CREATE TABLE, for a schema whose
\* specs all contain ':'
BuildColumns(schema) ==
    LET columns == ParsedColumns(schema)
    IN  IF HasIdColumn(columns) THEN columns ELSE <<SyntheticId>> \o columns

\* ------------------------------------------------------------------ engine
KW_PRIMARY       == <<"P","R","I","M","A","R","Y">>
KW_KEY           == <<"K","E","Y">>
KW_AUTOINCREMENT == <<"A","U","T","O","I","N","C","R","E","M","E","N","T">>
KW_INTEGER       == <<"I","N","T","E","G","E","R">>
KW_INT           == <<"I","N","T">>
KW_TEXT          == <<"T","E","X","T">>
KW_CHAR          == <<"C","H","A","R">>
KW_CLOB          == <<"C","L","O","B">>

\* the tokens of a column definition before its first constraint keyword
RECURSIVE TypeTokens(_)
TypeTokens(toks) ==
    IF toks = <<>> \/ upper(Head(toks)) \in {KW_PRIMARY, KW_AUTOINCREMENT} THEN <<>>
    ELSE <<Head(toks)>> \o TypeTokens(Tail(toks))

\* column affinity from the declared type (the engine's rules 1, 2 and 5;
\* BLOB and REAL types do not occur in the schemas of this model)
Affinity(type) ==
    IF HasSubstr(upper(type), KW_INT) THEN "INTEGER"
    ELSE IF \E kw \in {KW_TEXT, KW_CHAR, KW_CLOB} : HasSubstr(upper(type), kw) THEN "TEXT"
    ELSE IF type = <<>> THEN "BLOB"
    ELSE "NUMERIC"

\* how the engine reads one column definition "name TYPE [PRIMARY KEY [AUTOINCREMENT]]"
ColumnOf(coldef) ==
    LET toks == split(coldef)
        rest == Tail(toks)
        tt   == TypeTokens(rest)
        type == joinSp(tt)
        pk   == \E i \in 1..(Len(rest) - 1) :
                    upper(rest[i]) = KW_PRIMARY /\ upper(rest[i+1]) = KW_KEY
    IN  [name    |-> toks[1],
         type    |-> type,
         pk      |-> pk,
         alias   |-> pk /\ upper(type) = KW_INTEGER,
         autoinc |-> \E i \in 1..Len(rest) : upper(rest[i]) = KW_AUTOINCREMENT,
         aff     |-> Affinity(type)]

\* a bound text parameter as stored in a column of the given affinity
ApplyAffinity(aff, text) ==
    IF aff \in {"INTEGER", "NUMERIC"} /\ IsIntText(text) THEN PyInt(ToInt(text))
    ELSE PyStr(text)

TableNames == {<<"t">>, <<"u">>}

NoTable == [present |-> FALSE, cols |-> <<>>, rows |-> <<>>, seq |-> 0]

SetMax(S) == IF S = {} THEN 0 ELSE CHOOSE m \in S : \A x \in S : x <= m
Max2(a, b) == IF a >= b THEN a ELSE b

RECURSIVE SortedIds(_)
SortedIds(S) ==
    IF S = {} THEN <<>>
    ELSE LET m == CHOOSE x \in S : \A y \in S : x <= y
         IN  <<m>> \o SortedIds(S \ {m})

\* position of the column an identifier names (identifiers are case-insensitive), 0 if none
ColIndex(cols, ident) ==
    IF \E j \in 1..Len(cols) : lower(cols[j].name) = lower(ident)
    THEN CHOOSE j \in 1..Len(cols) : lower(cols[j].name) = lower(ident)
    ELSE 0

\* position of ident in a list of column names, 0 if none
NamePos(names, ident) ==
    IF \E j \in 1..Len(names) : lower(names[j]) = lower(ident)
    THEN CHOOSE j \in 1..Len(names) : lower(names[j]) = lower(ident)
    ELSE 0

AliasIndex(cols) ==
    IF \E j \in 1..Len(cols) : cols[j].alias
    THEN CHOOSE j \in 1..Len(cols) : cols[j].alias
    ELSE 0

\* CREATE TABLE IF NOT EXISTS table (columns)
ExecCreateTable(tables, table, columns) ==
    IF tables[table].present THEN [ok |-> TRUE, tables |-> tables]
    ELSE LET cols == [j \in 1..Len(columns) |-> ColumnOf(columns[j])]
             dup  == \E i, j \in 1..Len(cols) : i < j /\ lower(cols[i].name) = lower(cols[j].name)
             pks  == Cardinality({j \in 1..Len(cols) : cols[j].pk})
             badauto == \E j \in 1..Len(cols) : cols[j].autoinc /\ ~cols[j].alias
         IN  IF dup \/ pks > 1 \/ badauto
             THEN [ok |-> FALSE, tables |-> tables]
             ELSE [ok |-> TRUE,
                   tables |-> [tables EXCEPT ![table] =
                       [present |-> TRUE, cols |-> cols, rows |-> <<>>, seq |-> 0]]]

\* PRAGMA table_info(table): one descriptor per column, none for a missing table
ExecTableInfo(tables, table) ==
    IF tables[table].present
    THEN [j \in 1..Len(tables[table].cols) |->
            [name |-> tables[table].cols[j].name,
             type |-> tables[table].cols[j].type,
             pk   |-> tables[table].cols[j].pk]]
    ELSE <<>>

\* the rowid the engine picks for a row inserted without one
NextRowId(tb) ==
    LET a == AliasIndex(tb.cols)
        m == SetMax(DOMAIN tb.rows)
    IN  IF a # 0 /\ tb.cols[a].autoinc THEN Max2(tb.seq, m) + 1 ELSE m + 1

\* INSERT INTO table (columns) VALUES (?, ...) with the text parameters values
ExecInsert(tables, table, columns, values) ==
    LET tb    == tables[table]
        a     == AliasIndex(tb.cols)
        bound == [j \in 1..Len(tb.cols) |->
                    LET p == NamePos(columns, tb.cols[j].name)
                    IN  IF p = 0 THEN PyNone ELSE ApplyAffinity(tb.cols[j].aff, values[p])]
        given == a # 0 /\ bound[a] # PyNone
        rowid == IF given THEN bound[a].i ELSE NextRowId(tb)
        vals  == [j \in 1..Len(tb.cols) |-> IF j = a THEN PyInt(rowid) ELSE bound[j]]
    IN  IF given /\ bound[a].k # "int"
        THEN [ok |-> FALSE, tables |-> tables, lastrowid |-> 0]      \* datatype mismatch
        ELSE IF rowid \in DOMAIN tb.rows
        THEN [ok |-> FALSE, tables |-> tables, lastrowid |-> 0]      \* UNIQUE constraint failed
        ELSE [ok |-> TRUE,
              tables |-> [tables EXCEPT ![table] =
                  [tb EXCEPT !.rows = [r \in (DOMAIN tb.rows) \cup {rowid} |->
                                          IF r = rowid THEN vals ELSE tb.rows[r]],
                             !.seq  = IF a # 0 /\ tb.cols[a].autoinc
                                      THEN Max2(tb.seq, rowid) ELSE tb.seq]],
              lastrowid |-> rowid]

\* the rowids of the rows that satisfy WHERE id = ? for an integer parameter
MatchIds(tb, row_id) ==
    LET c == ColIndex(tb.cols, STR_id)
    IN  {r \in DOMAIN tb.rows : tb.rows[r][c].k = "int" /\ tb.rows[r][c].i = row_id}

\* a SELECT that answers a missing table with no rows
ExecSelectMutant(tables, table, filtered, row_id) ==
    LET tb == tables[table]
    IN  IF ~tb.present \/ (filtered /\ ColIndex(tb.cols, STR_id) = 0)
        THEN [ok |-> TRUE, rows |-> <<>>]
        ELSE LET ids == SortedIds(IF filtered THEN MatchIds(tb, row_id) ELSE DOMAIN tb.rows)
             IN  [ok |-> TRUE, rows |-> [n \in 1..Len(ids) |-> tb.rows[ids[n]]]]
\* SELECT * FROM table [WHERE id = ?]: the rows in rowid order
ExecSelect(tables, table, filtered, row_id) ==
    LET tb == tables[table]
    IN  IF ~tb.present \/ (filtered /\ ColIndex(tb.cols, STR_id) = 0)
        THEN [ok |-> FALSE, rows |-> <<>>]
        ELSE LET ids == SortedIds(IF filtered THEN MatchIds(tb, row_id) ELSE DOMAIN tb.rows)
             IN  [ok |-> TRUE, rows |-> [n \in 1..Len(ids) |-> tb.rows[ids[n]]]]

\* UPDATE table SET c1 = ?, ... WHERE id = ?
ExecUpdate(tables, table, columns, values, row_id) ==
    LET tb   == tables[table]
        a    == AliasIndex(tb.cols)
        M    == IF ColIndex(tb.cols, STR_id) = 0 THEN {} ELSE MatchIds(tb, row_id)
        newv(r) == [j \in 1..Len(tb.cols) |->
                      LET p == NamePos(columns, tb.cols[j].name)
                      IN  IF p = 0 THEN tb.rows[r][j] ELSE ApplyAffinity(tb.cols[j].aff, values[p])]
        moves == a # 0 /\ NamePos(columns, tb.cols[a].name) # 0
        newid(r) == IF moves THEN newv(r)[a].i ELSE r
        kept  == (DOMAIN tb.rows) \ M
        bad   == \/ ColIndex(tb.cols, STR_id) = 0
                 \/ /\ moves
                    /\ M # {}
                    /\ \/ \E r \in M : newv(r)[a].k # "int"
                       \/ Cardinality(M) > 1
                       \/ \E r \in M : newid(r) \in kept
        ids   == kept \cup {newid(r) : r \in M}
    IN  IF bad THEN [ok |-> FALSE, tables |-> tables, rowcount |-> 0]
        ELSE [ok |-> TRUE,
              tables |-> [tables EXCEPT ![table] =
                  [tb EXCEPT !.rows = [n \in ids |->
                        IF n \in kept THEN tb.rows[n]
                        ELSE newv(CHOOSE r \in M : newid(r) = n)]]],
              rowcount |-> Cardinality(M)]

\* DELETE FROM table WHERE id = ?
ExecDelete(tables, table, row_id) ==
    LET tb == tables[table]
    IN  IF ~tb.present \/ ColIndex(tb.cols, STR_id) = 0
        THEN [ok |-> FALSE, tables |-> tables, rowcount |-> 0]
        ELSE LET M == MatchIds(tb, row_id)
             IN  [ok |-> TRUE,
                  tables |-> [tables EXCEPT ![table] =
                      [tb EXCEPT !.rows = [r \in (DOMAIN tb.rows) \ M |-> tb.rows[r]]]],
                  rowcount |-> Cardinality(M)]

\* DROP TABLE IF EXISTS table
ExecDropTable(tables, table) == [tables EXCEPT ![table] = NoTable]

\* ---------------------------------------------------------------- manager
\* what a manager call leaves behind: the exception it raised (if any), the
\* tables afterwards, and its return value (n: id or count, rows, cols)
Outcome(exc, kind, tables, n, rows, cols) ==
    [exc |-> exc, kind |-> kind, tables |-> tables, n |-> n, rows |-> rows, cols |-> cols]

\* DBManager.table_info: the engine answers a missing table with no rows
table_info(tables, table) == ExecTableInfo(tables, table)

\* [col[1] for col in info if col[1] != 'id']
NonIdColumnsMutant(info) ==
    LET keep == SelectSeq(info, LAMBDA col : TRUE)
    IN  [j \in 1..Len(keep) |-> keep[j].name]
NonIdColumns(info) ==
    LET keep == SelectSeq(info, LAMBDA col : col.name # STR_id)
    IN  [j \in 1..Len(keep) |-> keep[j].name]

\* DBManager.create_table
create_table(tables, table, schema) ==
    LET bad == FirstBadSpec(schema)
    IN  IF bad # <<>>
        THEN Outcome("ValueError", "FormatError", tables, 0, <<>>, bad)
        ELSE LET columns == BuildColumns(schema)
                 r       == ExecCreateTable(tables, table, columns)
             IN  IF r.ok THEN Outcome("none", "none", r.tables, 1, <<>>, columns)
                 ELSE Outcome("RuntimeError", "OperationError", tables, 0, <<>>, columns)

\* DBManager.insert
insert(tables, table, values) ==
    LET info    == table_info(tables, table)
        columns == NonIdColumns(info)
    IN  IF info = <<>>
        THEN Outcome("ValueError", "ValidationError", tables, 0, <<>>, <<>>)
        ELSE IF Len(values) # Len(columns)
        THEN Outcome("ValueError", "ValidationError", tables, 0, <<>>, columns)
        ELSE LET r == ExecInsert(tables, table, columns, values)
             IN  IF r.ok THEN Outcome("none", "none", r.tables, r.lastrowid, <<>>, columns)
                 ELSE Outcome("RuntimeError", "OperationError", tables, 0, <<>>, columns)

\* DBManager.select with a row id
select(tables, table, row_id) ==
    LET r == ExecSelect(tables, table, TRUE, row_id)
    IN  IF r.ok THEN Outcome("none", "none", tables, Len(r.rows), r.rows, <<>>)
        ELSE Outcome("RuntimeError", "OperationError", tables, 0, <<>>, <<>>)

\* DBManager.select without a row id
select_all(tables, table) ==
    LET r == ExecSelect(tables, table, FALSE, 0)
    IN  IF r.ok THEN Outcome("none", "none", tables, Len(r.rows), r.rows, <<>>)
        ELSE Outcome("RuntimeError", "OperationError", tables, 0, <<>>, <<>>)

\* DBManager.update
update(tables, table, row_id, values) ==
    LET info    == table_info(tables, table)
        columns == NonIdColumns(info)
    IN  IF info = <<>>
        THEN Outcome("ValueError", "ValidationError", tables, 0, <<>>, <<>>)
        ELSE IF Len(values) # Len(columns)
        THEN Outcome("ValueError", "ValidationError", tables, 0, <<>>, columns)
        ELSE LET r == ExecUpdate(tables, table, columns, values, row_id)
             IN  IF r.ok THEN Outcome("none", "none", r.tables, r.rowcount, <<>>, columns)
                 ELSE Outcome("RuntimeError", "OperationError", tables, 0, <<>>, columns)

\* DBManager.delete
delete(tables, table, row_id) ==
    LET r == ExecDelete(tables, table, row_id)
    IN  IF r.ok THEN Outcome("none", "none", r.tables, r.rowcount, <<>>, <<>>)
        ELSE Outcome("RuntimeError", "OperationError", tables, 0, <<>>, <<>>)

\* DBManager.drop_table
drop_table(tables, table) ==
    Outcome("none", "none", ExecDropTable(tables, table), 1, <<>>, <<>>)

\* ------------------------------------------------------------------ inputs
T_t == <<"t">>
T_u == <<"u">>
DB_mydb       == <<"m","y","d","b">>
STR_databases == <<"d","a","t","a","b","a","s","e","s">>
STR_tables    == <<"t","a","b","l","e","s">>
STR_yes       == <<"y","e","s">>
STR_y         == <<"y">>

V_a  == <<"a">>
V_1  == <<"1">>
V_2  == <<"2">>
V_01 == <<"0","1">>

\* --schema argument lists
S_plain   == <<<<"n","a","m","e",":","t","e","x","t">>, <<"a","g","e",":","i","n","t","e","g","e","r">>>>
S_ownid   == <<<<"i","d",":","i","n","t","e","g","e","r">>, <<"n","a","m","e",":","t","e","x","t">>>>
S_ownpk   == <<<<"i","d",":","i","n","t","e","g","e","r"," ","p","r","i","m","a","r","y"," ","k","e","y">>, <<"n","a","m","e",":","t","e","x","t">>>>
S_upper   == <<<<"I","D",":","i","n","t","e","g","e","r">>, <<"n","a","m","e",":","t","e","x","t">>>>
S_upperpk == <<<<"I","D",":","i","n","t","e","g","e","r"," ","p","r","i","m","a","r","y"," ","k","e","y">>, <<"n","a","m","e",":","t","e","x","t">>>>
S_nocolon == <<<<"n","a","m","e",":","t","e","x","t">>, <<"a","g","e">>>>
S_twoid   == <<<<"i","d",":","i","n","t","e","g","e","r">>, <<"I","D",":","t","e","x","t">>>>
S_idx     == <<<<"i","d","x",":","t","e","x","t">>>>
Schemas   == {S_plain, S_ownid, S_ownpk, S_upper, S_upperpk, S_nocolon, S_twoid, S_idx}

\* -c argument lists
CreateLists == {<<V_a>>, <<V_a, V_01>>, <<V_1, V_a>>, <<V_01, V_a>>, <<V_a, V_a>>, <<V_a, V_a, V_a>>}
\* -u argument lists (the id first)
UpdateLists == {<<V_1>>, <<V_a, V_a>>, <<V_1, V_a>>, <<V_1, V_2, V_a>>, <<V_2, V_01, V_a>>, <<V_1, V_a, V_a>>}
\* -r arguments
ReadIds == {V_1, V_2, V_a}
\* -d arguments (argparse has already converted them with int)
DeleteIds == 0..2
\* answers typed at a confirmation prompt
Responses == {<<"y","e","s">>, <<"y">>, <<"Y","E","S">>, <<"Y">>, <<"n","o">>, <<>>}
\* lines of standard input, as the iteration over sys.stdin yields them
Lines == {<<"a"," ","0","1","\n">>, <<"\n">>, <<"a","\n">>, <<" "," ","\n">>, <<" ","1"," ","\t","a","\n">>, <<"a"," ","a">>}

\* -------------------------------------------------------- result formatters
\* sep.join(parts)
RECURSIVE join(_, _)
join(sep, parts) ==
    IF parts = <<>> THEN <<>>
    ELSE IF Len(parts) = 1 THEN parts[1]
    ELSE parts[1] \o sep \o join(sep, Tail(parts))

\* the decimal digits of a natural number
RECURSIVE NatText(_)
NatText(n) ==
    IF n < 10 THEN <<Digits[n + 1]>>
    ELSE NatText(n \div 10) \o <<Digits[(n % 10) + 1]>>

\* str(val)
str(val) ==
    IF val.k = "null" THEN <<"N","o","n","e">>
    ELSE IF val.k = "int"
         THEN (IF val.i < 0 THEN <<"-">> \o NatText(0 - val.i) ELSE NatText(val.i))
         ELSE val.s

\* val_str.replace('"', '""')
RECURSIVE replaceQuotes(_)
replaceQuotes(s) ==
    IF s = <<>> THEN <<>>
    ELSE (IF Head(s) = "\"" THEN <<"\"", "\"">> ELSE <<Head(s)>>) \o replaceQuotes(Tail(s))

\* one field of a CSV line: the body of `for val in row`
CsvValue(val) ==
    LET val_str == IF val # PyNone THEN str(val) ELSE <<>>
    IN  IF HasChar(val_str, ",") \/ HasChar(val_str, "\"") \/ HasChar(val_str, "\n")
        THEN <<"\"">> \o replaceQuotes(val_str) \o <<"\"">>
        ELSE val_str

\* [description[0] for description in cursor_description]
Columns(cursor_description) ==
    [i \in 1..Len(cursor_description) |-> cursor_description[i][1]]

format_csv(rows, cursor_description) ==
    IF rows = <<>> THEN <<>>
    ELSE LET columns == Columns(cursor_description)
             header  == <<join(<<",">>, columns)>>
             lines   == header \o [i \in 1..Len(rows) |->
                            join(<<",">>, [j \in 1..Len(rows[i]) |-> CsvValue(rows[i][j])])]
         IN  join(<<"\n">>, lines)

\* json.dumps of a str with ensure_ascii=False: the short escapes
JsonChar(c) ==
    IF c = "\"" THEN <<"\\", "\"">>
    ELSE IF c = "\\" THEN <<"\\", "\\">>
    ELSE IF c = "\n" THEN <<"\\", "n">>
    ELSE IF c = "\t" THEN <<"\\", "t">>
    ELSE <<c>>
RECURSIVE JsonChars(_)
JsonChars(s) == IF s = <<>> THEN <<>> ELSE JsonChar(Head(s)) \o JsonChars(Tail(s))
JsonString(s) == <<"\"">> \o JsonChars(s) \o <<"\"">>

\* json.dumps of a cell
JsonValue(val) ==
    IF val.k = "null" THEN <<"n","u","l","l">>
    ELSE IF val.k = "int" THEN str(val)
    ELSE JsonString(val.s)

\* {col: val for col, val in zip(columns, row)} as its items in order: a key
\* stays where it first appeared and holds the value given last
RowDict(columns, row) ==
    LET n     == IF Len(columns) <= Len(row) THEN Len(columns) ELSE Len(row)
        first == {i \in 1..n : \A j \in 1..(i - 1) : columns[j] # columns[i]}
        last(i) == SetMax({j \in 1..n : columns[j] = columns[i]})
        keys  == SortedIds(first)
    IN  [k \in 1..Len(keys) |-> <<columns[keys[k]], row[last(keys[k])]>>]

\* json.dumps(row_dict, ...) with the item and key separators and the
\* indentation of the call
JsonObject(items, open, itemsep, close) ==
    IF items = <<>> THEN <<"{", "}">>
    ELSE open \o join(itemsep, [k \in 1..Len(items) |->
                     JsonString(items[k][1]) \o <<":", " ">> \o JsonValue(items[k][2])])
              \o close

format_json(rows, cursor_description) ==
    IF rows = <<>> THEN <<"[", "]">>
    ELSE LET columns == Columns(cursor_description)
             result  == [i \in 1..Len(rows) |-> RowDict(columns, rows[i])]
             objects == [i \in 1..Len(result) |->
                            <<" ", " ">> \o JsonObject(result[i],
                                <<"{", "\n", " ", " ", " ", " ">>,
                                <<",", "\n", " ", " ", " ", " ">>,
                                <<"\n", " ", " ", "}">>)]
         IN  <<"[", "\n">> \o join(<<",", "\n">>, objects) \o <<"\n", "]">>

format_jsonl(rows, cursor_description) ==
    IF rows = <<>> THEN <<>>
    ELSE LET columns == Columns(cursor_description)
             lines   == [i \in 1..Len(rows) |->
                            JsonObject(RowDict(columns, rows[i]), <<"{">>, <<",", " ">>, <<"}">>)]
         IN  join(<<"\n">>, lines)

\* ------------------------------------------------------- parsed arguments
\* argparse's namespace; <<>> stands for None where the value is a string or a list
NoArgs == [database |-> <<>>, table |-> <<>>,
           create |-> <<>>, read |-> [mode |-> "none", id |-> <<>>], update |-> <<>>,
           delete |-> [given |-> FALSE, id |-> 0], import_data |-> FALSE,
           databases |-> FALSE, list |-> FALSE, schema |-> <<>>, tables |-> FALSE,
           info |-> FALSE, drop_table |-> FALSE, path |-> FALSE, drop_database |-> FALSE]

OnDb == [NoArgs EXCEPT !.database = DB_mydb]
OnTable(tb) == [OnDb EXCEPT !.table = tb]

\* the command lines of the model
TableCommands(tb) ==
    {[OnTable(tb) EXCEPT !.info = TRUE], [OnTable(tb) EXCEPT !.drop_table = TRUE],
     [OnTable(tb) EXCEPT !.import_data = TRUE], OnTable(tb),
     [OnTable(tb) EXCEPT !.read = [mode |-> "all", id |-> <<>>]]}
    \cup {[OnTable(tb) EXCEPT !.schema = sc] : sc \in Schemas}
    \cup {[OnTable(tb) EXCEPT !.create = vs] : vs \in CreateLists}
    \cup {[OnTable(tb) EXCEPT !.read = [mode |-> "id", id |-> r]] : r \in ReadIds}
    \cup {[OnTable(tb) EXCEPT !.update = us] : us \in UpdateLists}
    \cup {[OnTable(tb) EXCEPT !.delete = [given |-> TRUE, id |-> d]] : d \in DeleteIds}

\* command lines giving more than one operation flag
FlagCombinations ==
    {[OnTable(T_t) EXCEPT !.create = <<V_a, V_a>>, !.delete = [given |-> TRUE, id |-> 1]],
     [OnTable(T_t) EXCEPT !.read = [mode |-> "all", id |-> <<>>], !.delete = [given |-> TRUE, id |-> 0]],
     [OnTable(T_t) EXCEPT !.info = TRUE, !.drop_table = TRUE, !.update = <<V_1, V_a, V_a>>]}

CommandLines ==
    {[NoArgs EXCEPT !.database = STR_databases], [NoArgs EXCEPT !.list = TRUE],
     [NoArgs EXCEPT !.info = TRUE],
     [OnDb EXCEPT !.path = TRUE], [OnDb EXCEPT !.drop_database = TRUE],
     [OnDb EXCEPT !.table = STR_tables], [OnDb EXCEPT !.list = TRUE],
     [OnDb EXCEPT !.info = TRUE]}
    \cup TableCommands(T_t)
    \cup {[OnTable(T_u) EXCEPT !.schema = S_idx],
          [OnTable(T_u) EXCEPT !.drop_table = TRUE],
          [OnTable(T_u) EXCEPT !.read = [mode |-> "id", id |-> V_1]],
          [OnTable(T_u) EXCEPT !.delete = [given |-> TRUE, id |-> 1]]}
    \cup FlagCombinations

\* "dbbox databases" and "dbbox mydb tables": the positional commands
Positional(a) ==
    LET a1 == IF a.database = STR_databases
              THEN [a EXCEPT !.databases = TRUE, !.database = <<>>] ELSE a
    IN  IF a1.table = STR_tables
        THEN [a1 EXCEPT !.tables = TRUE, !.table = <<>>] ELSE a1

\* which handler main reaches before it opens the database
PreUnit(a) ==
    IF a.databases \/ (a.list /\ a.database = <<>>) THEN "databases"
    ELSE IF a.database = <<>> THEN "nodatabase"
    ELSE IF a.path THEN "path"
    ELSE IF a.drop_database THEN "drop_database"
    ELSE "unit"

\* which branch of the chain inside `with DBManager(...)` runs
Resolved(a) ==
    IF a.tables \/ a.list THEN "tables"
    ELSE IF a.table = <<>> THEN "notable"
    ELSE IF a.info THEN "info"
    ELSE IF a.drop_table THEN "drop_table"
    ELSE IF a.schema # <<>> THEN "schema"
    ELSE IF a.create # <<>> THEN "create"
    ELSE IF a.read.mode # "none" THEN "read"
    ELSE IF a.update # <<>> THEN "update"
    ELSE IF a.delete.given /\ a.delete.id # 0 THEN "delete"
    ELSE IF a.import_data THEN "import"
    ELSE "none"

\* response.lower() not in ['yes', 'y']
ConfirmedMutant(response) == response # <<>>
Confirmed(response) == lower(response) \in {STR_yes, STR_y}

\* -------------------------------------------------------------------- state
VARIABLES
    db,        \* the database file: whether it exists, and its tables
    pc,        \* where main() is: idle, main, confirm_db, unit, confirm_table, importing, done
    args,      \* the namespace of the running invocation
    conn,      \* DBManager.conn: None, Open or Closed
    opens,     \* connections opened by the running invocation
    closedop,  \* a manager data operation was issued while conn was not Open
    call,      \* the last manager call of the invocation, with its outcome
    rc,        \* the exit code, -1 while running
    msg,       \* what the invocation reported: lines on stderr, error lines on stdout
    start,     \* the database file when the invocation began
    prompt,    \* the confirmation prompt and the answer it got
    imp,       \* the import loop's counters
    ops,       \* the operations main() resolved in the running invocation, in order
    fmt        \* a result formatter's arguments and what it returned

vars == <<db, pc, args, conn, opens, closedop, call, rc, msg, start, prompt, imp, ops, fmt>>

EmptyTables == [tb \in TableNames |-> NoTable]
NoFile   == [exists |-> FALSE, tables |-> EmptyTables]
NoOutcome == Outcome("none", "none", EmptyTables, 0, <<>>, <<>>)
NoCall   == [op |-> "none", table |-> <<>>, id |-> 0, values |-> <<>>,
             before |-> EmptyTables, out |-> NoOutcome]
NoMsg    == [err |-> 0, out |-> 0, summary |-> FALSE]
NoPrompt == [asked |-> FALSE, answered |-> FALSE, response |-> <<>>]
NoImp    == [expected |-> 0, read |-> 0, line |-> <<>>, nonblank |-> 0, imported |-> 0,
             errors |-> 0, before |-> EmptyTables]

\* no formatter has been given anything
NoFmt    == [description |-> <<>>, rows |-> <<>>, fn |-> "none", out |-> <<>>]

Init ==
    /\ db = NoFile
    /\ pc = "idle"
    /\ args = NoArgs
    /\ conn = "None"
    /\ opens = 0
    /\ closedop = FALSE
    /\ call = NoCall
    /\ rc = -1
    /\ msg = NoMsg
    /\ start = NoFile
    /\ prompt = NoPrompt
    /\ imp = NoImp
    /\ ops = <<>>
    /\ fmt = NoFmt

\* a manager call as the history records it
Call(op, table, id, values, out) ==
    [op |-> op, table |-> table, id |-> id, values |-> values,
     before |-> db.tables, out |-> out]

\* the model's bound on table growth: a command line that would insert into a
\* full table, or past the largest rowid, is not issued
Room(tb) ==
    /\ Cardinality(DOMAIN tb.rows) < MaxRows
    /\ NextRowId(tb) <= MaxRowId

\* main() up to the end of argument handling
Invoke(a) ==
    /\ pc \in {"idle", "done"}
    /\ (PreUnit(Positional(a)) = "unit" /\ Resolved(Positional(a)) = "create"
            /\ db.tables[a.table].present)
         => Room(db.tables[a.table])
    /\ args' = Positional(a)
    /\ pc' = "main"
    /\ conn' = "None"
    /\ opens' = 0
    /\ closedop' = FALSE
    /\ call' = NoCall
    /\ rc' = -1
    /\ msg' = NoMsg
    /\ start' = db
    /\ prompt' = NoPrompt
    /\ imp' = NoImp
    /\ ops' = <<>>
    /\ UNCHANGED <<db, fmt>>

\* `return code` (or an exception) leaving main(): the `with` block, if it was
\* entered, runs __exit__, which closes the connection
CloseMutant(c) == c
Close(c) == IF c = "Open" THEN "Closed" ELSE c

Return(code) ==
    /\ pc' = "done"
    /\ rc' = code
    /\ conn' = Close(conn)

\* --databases, or --list without a database name
ListDatabases ==
    /\ pc = "main" /\ PreUnit(args) = "databases"
    /\ Return(0)
    /\ UNCHANGED <<db, args, opens, closedop, call, msg, start, prompt, imp, ops, fmt>>

\* parser.error: usage and one message on stderr, exit status 2
MissingDatabase ==
    /\ pc = "main" /\ PreUnit(args) = "nodatabase"
    /\ Return(2)
    /\ msg' = [msg EXCEPT !.err = @ + 1]
    /\ UNCHANGED <<db, args, opens, closedop, call, start, prompt, imp, ops, fmt>>

ShowPath ==
    /\ pc = "main" /\ PreUnit(args) = "path"
    /\ Return(0)
    /\ UNCHANGED <<db, args, opens, closedop, call, msg, start, prompt, imp, ops, fmt>>

\* --drop-database up to the prompt
DropDatabaseCheck ==
    /\ pc = "main" /\ PreUnit(args) = "drop_database"
    /\ IF ~db.exists
       THEN /\ Return(1)
            /\ msg' = [msg EXCEPT !.out = @ + 1]
            /\ UNCHANGED prompt
       ELSE /\ pc' = "confirm_db"
            /\ prompt' = [prompt EXCEPT !.asked = TRUE]
            /\ UNCHANGED <<rc, conn, msg>>
    /\ UNCHANGED <<db, args, opens, closedop, call, start, imp, ops, fmt>>

\* --drop-database from the answer on: DBManager.drop_database closes the
\* connection and unlinks the file, then __exit__ closes again
ConfirmDropDatabase(response) ==
    /\ pc = "confirm_db"
    /\ prompt' = [prompt EXCEPT !.answered = TRUE, !.response = response]
    /\ IF ~Confirmed(response)
       THEN /\ Return(0)
            /\ UNCHANGED <<db, opens, call, closedop>>
       ELSE /\ pc' = "done"
            /\ rc' = 0
            /\ opens' = opens + 1
            /\ conn' = Close("Open")
            /\ call' = Call("drop_database", <<>>, 0, <<>>,
                            Outcome("none", "none", EmptyTables, 1, <<>>, <<>>))
            /\ db' = NoFile
            /\ UNCHANGED closedop
    /\ ops' = IF Confirmed(response) THEN Append(ops, "drop_database") ELSE ops
    /\ UNCHANGED <<args, msg, start, imp, fmt>>

\* DBManager.__enter__: sqlite3.connect creates the file when it is missing
Enter ==
    /\ pc = "main" /\ PreUnit(args) = "unit"
    /\ pc' = "unit"
    /\ conn' = "Open"
    /\ opens' = opens + 1
    /\ db' = [db EXCEPT !.exists = TRUE]
    /\ UNCHANGED <<args, closedop, call, rc, msg, start, prompt, imp, ops, fmt>>

\* an exception that reaches `except (ValueError, RuntimeError)`: one line on
\* stderr, exit status 1
Handled ==
    /\ Return(1)
    /\ msg' = [msg EXCEPT !.err = @ + 1]

\* a manager call made on the connection as it is now
Issue(c) ==
    /\ call' = c
    /\ db' = [db EXCEPT !.tables = c.out.tables]
    /\ closedop' = (closedop \/ conn # "Open")

\* --tables, or --list with a database name
ListTables ==
    /\ pc = "unit" /\ Resolved(args) = "tables"
    /\ Issue(Call("list_tables", <<>>, 0, <<>>,
                  Outcome("none", "none", db.tables, 0, <<>>, <<>>)))
    /\ Return(0)
    /\ ops' = Append(ops, "tables")
    /\ UNCHANGED <<args, opens, msg, start, prompt, imp, fmt>>

\* parser.error inside the `with` block
MissingTable ==
    /\ pc = "unit" /\ Resolved(args) = "notable"
    /\ Return(2)
    /\ msg' = [msg EXCEPT !.err = @ + 1]
    /\ UNCHANGED <<db, args, opens, closedop, call, start, prompt, imp, ops, fmt>>

InfoCall(table) ==
    LET info == table_info(db.tables, table)
    IN  Call("table_info", table, 0, <<>>,
             Outcome("none", "none", db.tables, Len(info), <<>>,
                     [j \in 1..Len(info) |-> info[j].name]))

\* --info
ShowInfo ==
    /\ pc = "unit" /\ Resolved(args) = "info"
    /\ Issue(InfoCall(args.table))
    /\ IF table_info(db.tables, args.table) = <<>>
       THEN Return(1) /\ msg' = [msg EXCEPT !.out = @ + 1]
       ELSE Return(0) /\ UNCHANGED msg
    /\ ops' = Append(ops, "info")
    /\ UNCHANGED <<args, opens, start, prompt, imp, fmt>>

\* --drop-table up to the prompt
DropTableCheck ==
    /\ pc = "unit" /\ Resolved(args) = "drop_table"
    /\ Issue(InfoCall(args.table))
    /\ IF table_info(db.tables, args.table) = <<>>
       THEN /\ Return(1)
            /\ msg' = [msg EXCEPT !.out = @ + 1]
            /\ UNCHANGED prompt
       ELSE /\ pc' = "confirm_table"
            /\ prompt' = [prompt EXCEPT !.asked = TRUE]
            /\ UNCHANGED <<rc, conn, msg>>
    /\ ops' = Append(ops, "drop_table")
    /\ UNCHANGED <<args, opens, start, imp, fmt>>

\* --drop-table from the answer on
ConfirmDropTable(response) ==
    /\ pc = "confirm_table"
    /\ prompt' = [prompt EXCEPT !.answered = TRUE, !.response = response]
    /\ IF ~Confirmed(response)
       THEN UNCHANGED <<db, call, closedop>>
       ELSE Issue(Call("drop_table", args.table, 0, <<>>, drop_table(db.tables, args.table)))
    /\ Return(0)
    /\ UNCHANGED <<args, opens, msg, start, imp, ops, fmt>>

\* --schema
CreateTable ==
    /\ pc = "unit" /\ Resolved(args) = "schema"
    /\ LET out == create_table(db.tables, args.table, args.schema)
       IN  /\ Issue(Call("create_table", args.table, 0, args.schema, out))
           /\ IF out.exc # "none" THEN Handled ELSE Return(0) /\ UNCHANGED msg
    /\ ops' = Append(ops, "schema")
    /\ UNCHANGED <<args, opens, start, prompt, imp, fmt>>

\* -c
Create ==
    /\ pc = "unit" /\ Resolved(args) = "create"
    /\ LET out == insert(db.tables, args.table, args.create)
       IN  /\ Issue(Call("insert", args.table, 0, args.create, out))
           /\ IF out.exc # "none" THEN Handled ELSE Return(0) /\ UNCHANGED msg
    /\ ops' = Append(ops, "create")
    /\ UNCHANGED <<args, opens, start, prompt, imp, fmt>>

\* -r: `except ValueError` around int(args.read) prints to stdout
Read ==
    /\ pc = "unit" /\ Resolved(args) = "read"
    /\ IF args.read.mode = "id" /\ ~IsIntText(args.read.id)
       THEN /\ Return(1)
            /\ msg' = [msg EXCEPT !.out = @ + 1]
            /\ UNCHANGED <<db, call, closedop>>
       ELSE LET out == IF args.read.mode = "all"
                       THEN select_all(db.tables, args.table)
                       ELSE select(db.tables, args.table, ToInt(args.read.id))
            IN  /\ Issue(Call("select", args.table,
                              IF args.read.mode = "all" THEN 0 ELSE ToInt(args.read.id),
                              <<>>, out))
                /\ IF out.exc # "none" THEN Handled ELSE Return(0) /\ UNCHANGED msg
    /\ ops' = Append(ops, "read")
    /\ UNCHANGED <<args, opens, start, prompt, imp, fmt>>

\* -u: the `except ValueError` around int(args.update[0]) also encloses db.update
Update ==
    /\ pc = "unit" /\ Resolved(args) = "update"
    /\ IF Len(args.update) < 2 \/ ~IsIntText(args.update[1])
       THEN /\ Return(1)
            /\ msg' = [msg EXCEPT !.out = @ + 1]
            /\ UNCHANGED <<db, call, closedop>>
       ELSE LET row_id == ToInt(args.update[1])
                values == Tail(args.update)
                out    == update(db.tables, args.table, row_id, values)
            IN  /\ Issue(Call("update", args.table, row_id, values, out))
                /\ IF out.exc = "ValueError"
                   THEN Return(1) /\ msg' = [msg EXCEPT !.out = @ + 1]
                   ELSE IF out.exc = "RuntimeError" THEN Handled
                   ELSE Return(0) /\ UNCHANGED msg
    /\ ops' = Append(ops, "update")
    /\ UNCHANGED <<args, opens, start, prompt, imp, fmt>>

\* -d
Delete ==
    /\ pc = "unit" /\ Resolved(args) = "delete"
    /\ LET out == delete(db.tables, args.table, args.delete.id)
       IN  /\ Issue(Call("delete", args.table, args.delete.id, <<>>, out))
           /\ IF out.exc # "none" THEN Handled ELSE Return(0) /\ UNCHANGED msg
    /\ ops' = Append(ops, "delete")
    /\ UNCHANGED <<args, opens, start, prompt, imp, fmt>>

\* --import up to the loop
ImportStart ==
    /\ pc = "unit" /\ Resolved(args) = "import"
    /\ Issue(InfoCall(args.table))
    /\ LET info == table_info(db.tables, args.table)
       IN  IF info = <<>>
           THEN /\ Return(1)
                /\ msg' = [msg EXCEPT !.err = @ + 1]
                /\ UNCHANGED imp
           ELSE /\ pc' = "importing"
                /\ imp' = [NoImp EXCEPT !.expected = Len(NonIdColumns(info)),
                                        !.before = db.tables]
                /\ msg' = [msg EXCEPT !.err = @ + 1]
                /\ UNCHANGED <<rc, conn>>
    /\ ops' = Append(ops, "import")
    /\ UNCHANGED <<args, opens, start, prompt, fmt>>

\* one iteration of `for line_num, line in enumerate(sys.stdin, 1)`
ImportLine(line) ==
    /\ pc = "importing"
    /\ imp.read < MaxLines
    /\ LET stripped == strip(line)
           values   == split(stripped)
       IN  IF stripped = <<>>
           THEN /\ imp' = [imp EXCEPT !.read = @ + 1, !.line = line]
                /\ UNCHANGED <<db, call, closedop, msg>>
           ELSE IF Len(values) # imp.expected
           THEN /\ imp' = [imp EXCEPT !.read = @ + 1, !.line = line, !.nonblank = @ + 1, !.errors = @ + 1]
                /\ msg' = [msg EXCEPT !.err = @ + 1]
                /\ UNCHANGED <<db, call, closedop>>
           ELSE LET out == insert(db.tables, args.table, values)
                IN  /\ Room(db.tables[args.table])
                    /\ Issue(Call("insert", args.table, 0, values, out))
                    /\ IF out.exc = "none"
                       THEN /\ imp' = [imp EXCEPT !.read = @ + 1, !.line = line, !.nonblank = @ + 1,
                                                  !.imported = @ + 1]
                            /\ UNCHANGED msg
                       ELSE /\ imp' = [imp EXCEPT !.read = @ + 1, !.line = line, !.nonblank = @ + 1,
                                                  !.errors = @ + 1]
                            /\ msg' = [msg EXCEPT !.err = @ + 1]
    /\ UNCHANGED <<pc, args, conn, opens, rc, start, prompt, ops, fmt>>

\* end of input: the summary, and exit status 1 when nothing was read
ImportEnd ==
    /\ pc = "importing"
    /\ IF imp.imported = 0 /\ imp.errors = 0
       THEN Return(1) /\ msg' = [msg EXCEPT !.summary = TRUE, !.err = @ + 1]
       ELSE Return(0) /\ msg' = [msg EXCEPT !.summary = TRUE]
    /\ UNCHANGED <<db, args, opens, closedop, call, start, prompt, imp, ops, fmt>>

\* parser.error("No operation specified...")
NoOperation ==
    /\ pc = "unit" /\ Resolved(args) = "none"
    /\ Return(2)
    /\ msg' = [msg EXCEPT !.err = @ + 1]
    /\ UNCHANGED <<db, args, opens, closedop, call, start, prompt, imp, ops, fmt>>

\* Ctrl-C while main() blocks inside the try block: `except KeyboardInterrupt`
Interrupt ==
    /\ pc \in {"confirm_table", "importing"}
    /\ Return(130)
    /\ UNCHANGED <<db, args, opens, closedop, call, msg, start, prompt, imp, ops, fmt>>

Next ==
    \/ \E a \in CommandLines : Invoke(a)
    \/ ListDatabases
    \/ MissingDatabase
    \/ ShowPath
    \/ DropDatabaseCheck
    \/ \E response \in Responses : ConfirmDropDatabase(response)
    \/ Enter
    \/ ListTables
    \/ MissingTable
    \/ ShowInfo
    \/ DropTableCheck
    \/ \E response \in Responses : ConfirmDropTable(response)
    \/ CreateTable
    \/ Create
    \/ Read
    \/ Update
    \/ Delete
    \/ ImportStart
    \/ \E line \in Lines : ImportLine(line)
    \/ ImportEnd
    \/ NoOperation
    \/ Interrupt

Spec == Init /\ [][Next]_vars

TypeOK ==
    /\ pc \in {"idle", "main", "confirm_db", "unit", "confirm_table", "importing", "done"}
    /\ conn \in {"None", "Open", "Closed"}
    /\ rc \in {-1, 0, 1, 2, 130}
    /\ Len(ops) <= 1
    /\ fmt.fn \in {"none", "json", "jsonl", "csv"}

\* ------------------------------------------------ the formatters, applied
\* cursor.description of a one-column and of a two-column table; of the
\* seven items of a description only the name is kept
Descriptions == {<<<<<<"n","a","m","e">>>>>>, <<<<STR_id>>, <<<<"n","a","m","e">>>>>>}

\* the cells of a result row
Cells ==
    {PyNone, PyInt(10), PyStr(<<"a">>), PyStr(<<"a", ",", "b">>), PyStr(<<"\"">>),
     PyStr(<<"a", "\n">>), PyStr(<<",", "\"", "\n">>)}

\* db.select's results over a description: up to MaxResultRows rows, in any order
ResultSets(description) ==
    UNION {[1..n -> [1..Len(description) -> Cells]] : n \in 0..MaxResultRows}

\* a result set and the description of its cursor, about to be formatted
InitFormat ==
    /\ db = NoFile
    /\ pc = "idle"
    /\ args = NoArgs
    /\ conn = "None"
    /\ opens = 0
    /\ closedop = FALSE
    /\ call = NoCall
    /\ rc = -1
    /\ msg = NoMsg
    /\ start = NoFile
    /\ prompt = NoPrompt
    /\ imp = NoImp
    /\ ops = <<>>
    /\ \E description \in Descriptions : \E rows \in ResultSets(description) :
           fmt = [description |-> description, rows |-> rows, fn |-> "none", out |-> <<>>]

\* output = format_...(rows, cursor.description)
Format(fn, output) ==
    /\ fmt.fn = "none"
    /\ fmt' = [fmt EXCEPT !.fn = fn, !.out = output]
    /\ UNCHANGED <<db, pc, args, conn, opens, closedop, call, rc, msg, start, prompt, imp, ops>>

FormatJson  == Format("json", format_json(fmt.rows, fmt.description))
FormatJsonl == Format("jsonl", format_jsonl(fmt.rows, fmt.description))
FormatCsv   == Format("csv", format_csv(fmt.rows, fmt.description))

NextFormat ==
    \/ FormatJson
    \/ FormatJsonl
    \/ FormatCsv

FormatSpec == InitFormat /\ [][NextFormat]_vars

\* ================================================================== claims
\* a sequence without its c-th element (the whole sequence when c = 0)
Without(seq, c) ==
    IF c = 0 THEN seq
    ELSE [j \in 1..(Len(seq) - 1) |-> IF j < c THEN seq[j] ELSE seq[j + 1]]

\* the table's columns other than the one the identifier `id` names
OtherColumns(tb) == Without(tb.cols, ColIndex(tb.cols, STR_id))
\* a row's values in those columns
OtherValues(tb, row) == Without(row, ColIndex(tb.cols, STR_id))
\* text parameters as the engine stores them in those columns
StoredAs(tb, values) ==
    [j \in 1..Len(values) |-> ApplyAffinity(OtherColumns(tb)[j].aff, values[j])]

\* the number of columns of a table that are not literally named id
NonIdCount(tb) == Cardinality({j \in 1..Len(tb.cols) : tb.cols[j].name # STR_id})

\* C1: an insert that succeeded, followed by select(table, id) with the id the
\* insert returned, yields exactly one row, whose non-id values are the
\* inserted values in column order (as the engine stores them).
C1_InsertThenSelect ==
    (call.op = "insert" /\ call.out.exc = "none") =>
        LET tb  == db.tables[call.table]
            got == select(db.tables, call.table, call.out.n)
        IN  /\ got.exc = "none"
            /\ Len(got.rows) = 1
            /\ Len(OtherColumns(tb)) = Len(call.values)
            /\ OtherValues(tb, got.rows[1]) = StoredAs(tb, call.values)

\* C2: insert and update with a value list whose length differs from the
\* number of non-id columns, or on a missing table, raise ValidationError and
\* leave every table and row as it was.
C2_MismatchWritesNothing ==
    (/\ call.op \in {"insert", "update"}
     /\ \/ ~call.before[call.table].present
        \/ Len(call.values) # NonIdCount(call.before[call.table]))
    => /\ call.out.exc = "ValueError"
       /\ call.out.kind = "ValidationError"
       /\ call.out.tables = call.before
       /\ db.tables = call.before

C2_Witness ==
    /\ call.op = "update"
    /\ call.before[call.table].present
    /\ DOMAIN call.before[call.table].rows # {}
    /\ Len(call.values) # NonIdCount(call.before[call.table])
    /\ call.out.exc = "ValueError"
    /\ pc = "done"

\* C3: update with a correctly-sized value list returns 1 and select(id) shows
\* the new values when a row has that id, returns 0 and changes nothing when
\* none has; rows with other ids are unchanged either way.
C3_UpdateThenSelect ==
    (/\ call.op = "update"
     /\ call.before[call.table].present
     /\ Len(call.values) = NonIdCount(call.before[call.table]))
    => LET old == call.before[call.table]
           new == db.tables[call.table]
           M   == MatchIds(old, call.id)
           got == select(db.tables, call.table, call.id)
       IN  /\ call.out.exc = "none"
           /\ \A r \in (DOMAIN old.rows) \ M : r \in DOMAIN new.rows /\ new.rows[r] = old.rows[r]
           /\ IF M = {}
              THEN call.out.n = 0 /\ db.tables = call.before
              ELSE /\ call.out.n = 1
                   /\ Len(got.rows) = 1
                   /\ Len(OtherColumns(new)) = Len(call.values)
                   /\ OtherValues(new, got.rows[1]) = StoredAs(new, call.values)

\* C4: delete of an id that a row has returns 1 and select(id) is then empty;
\* delete of an id no row has returns 0; rows with other ids are unchanged.
C4_DeleteThenSelect ==
    (call.op = "delete" /\ call.before[call.table].present)
    => LET old == call.before[call.table]
           new == db.tables[call.table]
           M   == MatchIds(old, call.id)
       IN  /\ call.out.exc = "none"
           /\ call.out.n = (IF M = {} THEN 0 ELSE 1)
           /\ select(db.tables, call.table, call.id).rows = <<>>
           /\ \A r \in (DOMAIN old.rows) \ M : r \in DOMAIN new.rows /\ new.rows[r] = old.rows[r]

\* the name of a built column definition "name TYPE"
DefName(coldef) == IF HasChar(coldef, " ") THEN split1(coldef, " ")[1] ELSE coldef
\* how many definitions of a column list are named id, in any letter case
IdCount(columns) == Cardinality({i \in 1..Len(columns) : lower(DefName(columns[i])) = STR_id})
\* how many of the caller's specs are named id, in any letter case
CallerIdCount(schema) ==
    Cardinality({i \in 1..Len(schema) : lower(split1(schema[i], ":")[1]) = STR_id})
AllHaveColon(schema) == \A i \in 1..Len(schema) : HasChar(schema[i], ":")

\* the parts of C5 that do not count id columns: the caller's columns in input
\* order, a synthetic id only in front, FormatError for a spec without ':'
C5_OrderAndFormat ==
    LET schema == call.values
        cols   == call.out.cols
    IN  IF AllHaveColon(schema)
        THEN \E off \in {0, 1} :
                /\ Len(cols) = Len(schema) + off
                /\ off = 1 => cols[1] = SyntheticId
                /\ \A i \in 1..Len(schema) :
                      cols[i + off] = split1(schema[i], ":")[1] \o <<" ">>
                                        \o upper(split1(schema[i], ":")[2])
        ELSE /\ call.out.exc = "ValueError"
             /\ call.out.kind = "FormatError"
             /\ \E i \in 1..Len(schema) : ~HasChar(schema[i], ":") /\ cols = <<schema[i]>>
             /\ call.out.tables = call.before
             /\ db.tables = call.before

\* C5 as claimed: the column list create_table builds keeps the caller's
\* columns in input order and contains exactly one column named id, a
\* synthetic id going first; a spec without ':' raises FormatError naming it
\* and creates no table.
C5_ExactlyOneId ==
    call.op = "create_table" =>
        /\ C5_OrderAndFormat
        /\ AllHaveColon(call.values) => IdCount(call.out.cols) = 1

\* C5 amended: the same, with at least one column named id, and exactly one
\* whenever at most one of the caller's specs is named id.
C5_AtLeastOneId ==
    call.op = "create_table" =>
        /\ C5_OrderAndFormat
        /\ AllHaveColon(call.values) =>
              /\ IdCount(call.out.cols) >= 1
              /\ CallerIdCount(call.values) <= 1 => IdCount(call.out.cols) = 1

C5_Witness ==
    /\ call.op = "create_table"
    /\ AllHaveColon(call.values)
    /\ CallerIdCount(call.values) = 0
    /\ Len(call.out.cols) = Len(call.values) + 1
    /\ call.out.exc = "none"
    /\ db.tables[call.table].present

Drops == {"drop_table", "drop_database"}

\* C6 as claimed: drop_table / drop_database is called only after the prompt
\* was answered `yes` or `y`; any other answer cancels and leaves the database
\* file, its tables and all rows as they were when the invocation began.
C6_DropOnlyAfterYes ==
    /\ call.op \in Drops => prompt.answered /\ prompt.response \in {STR_yes, STR_y}
    /\ (pc = "done" /\ prompt.answered /\ prompt.response \notin {STR_yes, STR_y})
          => call.op \notin Drops /\ db = start /\ rc = 0

\* C6 amended: the same with the answer compared in any letter case
\* (`YES`, `Y`, `Yes` confirm as well).
C6_DropOnlyAfterYesAnyCase ==
    /\ call.op \in Drops => prompt.answered /\ lower(prompt.response) \in {STR_yes, STR_y}
    /\ (pc = "done" /\ prompt.answered /\ lower(prompt.response) \notin {STR_yes, STR_y})
          => call.op \notin Drops /\ db = start /\ rc = 0

C6_Witness ==
    /\ pc = "done"
    /\ call.op = "drop_table"
    /\ prompt.response = <<"Y","E","S">>
    /\ DOMAIN start.tables[call.table].rows # {}
    /\ ~db.tables[call.table].present

\* a line that has only whitespace
IsBlank(line) == \A i \in 1..Len(line) : IsSpace(line[i])
\* the number of whitespace-separated fields of a line
FieldCount(line) ==
    Cardinality({i \in 1..Len(line) : ~IsSpace(line[i]) /\ (i = 1 \/ IsSpace(line[i - 1]))})
RowCount(tables, table) == Cardinality(DOMAIN tables[table].rows)
\* the import loop was entered
ImportRan == args.table \in TableNames /\ imp.before[args.table].present

\* one line of the import: a blank line changes nothing, a line with the
\* table's non-id column count adds one row (or one error when the insert
\* fails), any other line adds one error; the loop goes on
C7_Line ==
    (pc = "importing" /\ imp'.read = imp.read + 1) =>
        LET line  == imp'.line
            added == RowCount(db'.tables, args.table) - RowCount(db.tables, args.table)
        IN  /\ pc' = "importing"
            /\ IF IsBlank(line)
               THEN /\ db' = db /\ msg' = msg
                    /\ imp'.imported = imp.imported /\ imp'.errors = imp.errors
               ELSE IF FieldCount(line) = NonIdCount(db.tables[args.table])
               THEN \/ /\ added = 1
                       /\ imp'.imported = imp.imported + 1 /\ imp'.errors = imp.errors
                    \/ /\ db' = db
                       /\ imp'.imported = imp.imported /\ imp'.errors = imp.errors + 1
               ELSE /\ db' = db
                    /\ imp'.imported = imp.imported /\ imp'.errors = imp.errors + 1

\* the import's counters: imported = rows added, imported + errors = non-blank
\* lines, and an import that reaches the end of input reports the summary
C7_Totals ==
    ImportRan =>
        /\ imp.imported = RowCount(db.tables, args.table) - RowCount(imp.before, args.table)
        /\ imp.imported + imp.errors = imp.nonblank
        /\ (pc = "done" /\ rc # 130) =>
              /\ msg.summary
              /\ rc = (IF imp.nonblank = 0 THEN 1 ELSE 0)

\* C7: bulk import treats every line independently (blank: skipped silently;
\* matching field count: one row; anything else, or a failed insert: one
\* error, later lines still processed) and always ends with the summary,
\* imported = rows added and imported + errors = number of non-blank lines.
C7_ImportLineByLine == []C7_Totals /\ [][C7_Line]_vars

\* lines "a 01", "" and "a" on a table with two non-id columns: 1 row, 1 error
C7_Witness ==
    /\ pc = "done"
    /\ ImportRan
    /\ NonIdCount(db.tables[args.table]) = 2
    /\ imp.read = 3
    /\ imp.nonblank = 2
    /\ imp.imported = 1
    /\ imp.errors = 1
    /\ msg.summary
    /\ rc = 0

\* the spec's Closed: never connected, or connected and closed again
IsClosed == conn \in {"None", "Closed"}

\* C8 as claimed: every invocation opens exactly one connection, ends with the
\* manager Closed, and issues no data operation while the manager is Closed.
C8_ExactlyOneConnection ==
    /\ ~closedop
    /\ pc = "done" => opens = 1 /\ IsClosed

\* C8 amended: every invocation opens at most one connection -- exactly one
\* when it reaches the unit of work or a confirmed drop-database, none
\* otherwise -- ends with the manager Closed on every exit path, and issues
\* no data operation while the manager is Closed.
C8_AtMostOneConnection ==
    /\ ~closedop
    /\ opens <= 1
    /\ conn = "Open" => opens = 1
    /\ pc = "done" =>
          /\ IsClosed
          /\ opens = 1 <=> (PreUnit(args) = "unit" \/ call.op = "drop_database")

\* an argument error raised inside the unit of work
C8_Witness ==
    /\ pc = "done"
    /\ rc = 2
    /\ opens = 1
    /\ conn = "Closed"

\* C9: an exception raised by a manager operation of the invocation ends it
\* with exactly one message on the error stream and exit code 1; exit code 0
\* only on success.  (The per-line handling of bulk import is C7's subject.)
C9_ErrorsOnStderr ==
    (pc = "done" /\ PreUnit(args) = "unit" /\ Resolved(args) # "import") =>
        /\ call.out.exc # "none" => rc = 1 /\ msg.err = 1
        /\ rc = 0 => call.out.exc = "none"

Absent(c) == ~c.before[c.table].present
NoMatch(c) == c.before[c.table].present /\ MatchIds(c.before[c.table], c.id) = {}

\* C10 as claimed: table_info, select and delete answer an absent table or
\* row with none / an empty result / count 0, never an error; insert and
\* update raise on a missing table.
C10_AbsentIsNoError ==
    /\ (call.op = "table_info" /\ Absent(call)) => call.out.exc = "none" /\ call.out.n = 0
    /\ (call.op = "select" /\ args.read.mode = "id" /\ (Absent(call) \/ NoMatch(call)))
          => call.out.exc = "none" /\ call.out.rows = <<>>
    /\ (call.op = "delete" /\ (Absent(call) \/ NoMatch(call)))
          => call.out.exc = "none" /\ call.out.n = 0
    /\ (call.op \in {"insert", "update"} /\ Absent(call)) => call.out.exc = "ValueError"

\* C10 amended: an absent row is an empty result (select) or count 0 (delete)
\* and table_info on an absent table returns no descriptors, none of them an
\* error; select and delete on an absent table raise OperationError; insert
\* and update on an absent table raise ValidationError.
C10_AbsentRowIsNoError ==
    /\ (call.op = "table_info" /\ Absent(call)) => call.out.exc = "none" /\ call.out.n = 0
    /\ (call.op = "select" /\ args.read.mode = "id" /\ NoMatch(call))
          => call.out.exc = "none" /\ call.out.rows = <<>>
    /\ (call.op = "delete" /\ NoMatch(call))
          => call.out.exc = "none" /\ call.out.n = 0 /\ db.tables = call.before
    /\ (call.op \in {"select", "delete"} /\ Absent(call))
          => call.out.exc = "RuntimeError" /\ call.out.kind = "OperationError"
    /\ (call.op \in {"insert", "update"} /\ Absent(call))
          => call.out.exc = "ValueError" /\ call.out.kind = "ValidationError"

C10_Witness ==
    /\ pc = "done"
    /\ call.op = "select"
    /\ args.read.mode = "id"
    /\ Absent(call)
    /\ call.out.exc = "RuntimeError"
    /\ rc = 1


\* the operation flags a command line gives
OperationFlags(a) ==
    {f \in {"create", "read", "update", "delete", "import", "schema", "info", "drop_table"} :
        \/ f = "create" /\ a.create # <<>>
        \/ f = "read" /\ a.read.mode # "none"
        \/ f = "update" /\ a.update # <<>>
        \/ f = "delete" /\ a.delete.given
        \/ f = "import" /\ a.import_data
        \/ f = "schema" /\ a.schema # <<>>
        \/ f = "info" /\ a.info
        \/ f = "drop_table" /\ a.drop_table}

\* every flag argument is of the documented shape: -r with no ID or an integer,
\* -u with an integer ID and at least one value, -d with any integer
LegalArguments(a) ==
    /\ a.read.mode = "id" => IsIntText(a.read.id)
    /\ a.update # <<>> => Len(a.update) >= 2 /\ IsIntText(a.update[1])

\* a finished invocation that named a database and a table and gave at least
\* one operation flag, and nothing but operation flags
OperationInvocation ==
    /\ pc = "done"
    /\ args.database # <<>> /\ args.table # <<>>
    /\ ~(args.databases \/ args.list \/ args.tables \/ args.path \/ args.drop_database)
    /\ OperationFlags(args) # {}
    /\ LegalArguments(args)

\* C11: every invocation that names a database and a table and gives at least
\* one operation flag with a legal argument (-d with any integer, 0 included)
\* resolves exactly one operation and dispatches it to the manager: it is
\* never rejected with "No operation specified" and never runs two operations.
C11_ExactlyOneOperation ==
    OperationInvocation
        => /\ Len(ops) = 1
           /\ call # NoCall
           /\ rc # 2


\* a CSV reader after RFC 4180 that takes the line feed as the line break:
\* fields are separated by commas, a field that opens with a double quote runs
\* to its closing quote with "" read as one quote, every line is a record (an
\* empty line is a record of one empty field), and a line break that ends the
\* input ends the last record without opening another
RECURSIVE ParseCsvFrom(_, _, _, _, _)
ParseCsvFrom(s, records, record, field, mode) ==
    IF s = <<>>
    THEN IF mode = "start" /\ record = <<>> THEN records
         ELSE Append(records, Append(record, field))
    ELSE LET c == Head(s)
             r == Tail(s)
         IN  IF mode = "quoted"
             THEN IF c # "\"" THEN ParseCsvFrom(r, records, record, Append(field, c), "quoted")
                  ELSE IF r # <<>> /\ Head(r) = "\""
                       THEN ParseCsvFrom(Tail(r), records, record, Append(field, c), "quoted")
                       ELSE ParseCsvFrom(r, records, record, field, "closed")
             ELSE IF c = "," THEN ParseCsvFrom(r, records, Append(record, field), <<>>, "start")
             ELSE IF c = "\n"
                  THEN ParseCsvFrom(r, Append(records, Append(record, field)), <<>>, <<>>, "start")
             ELSE IF c = "\"" /\ mode = "start"
                  THEN ParseCsvFrom(r, records, record, field, "quoted")
             ELSE ParseCsvFrom(r, records, record, Append(field, c), "plain")
ParseCsv(s) == ParseCsvFrom(s, <<>>, <<>>, <<>>, "start")

\* the text a CSV reader can give back for a cell: a null is an empty field
CellText(val) == IF val = PyNone THEN <<>> ELSE str(val)
RowText(row) == [j \in 1..Len(row) |-> CellText(row[j])]

\* what the field of a cell has to be: wrapped in double quotes, internal
\* quotes doubled, when the text has a comma, a double quote or a newline
QuotedField(text) ==
    IF \E i \in 1..Len(text) : text[i] \in {",", "\"", "\n"}
    THEN <<"\"">> \o replaceQuotes(text) \o <<"\"">>
    ELSE text

\* the lines of a text: the runs between the line feeds that are not inside a
\* quoted field
RECURSIVE LinesFrom(_, _, _, _)
LinesFrom(s, lines, line, quoted) ==
    IF s = <<>> THEN Append(lines, line)
    ELSE IF Head(s) = "\n" /\ ~quoted THEN LinesFrom(Tail(s), Append(lines, line), <<>>, quoted)
    ELSE LinesFrom(Tail(s), lines, Append(line, Head(s)), IF Head(s) = "\"" THEN ~quoted ELSE quoted)
LinesOf(s) == LinesFrom(s, <<>>, <<>>, FALSE)

\* the header line and one line per row, in row order, fields quoted as above
C12_Layout ==
    (fmt.fn = "csv" /\ fmt.rows # <<>>)
        => LinesOf(fmt.out) =
             <<join(<<",">>, Columns(fmt.description))>>
             \o [i \in 1..Len(fmt.rows) |->
                   join(<<",">>, [j \in 1..Len(fmt.rows[i]) |->
                                     QuotedField(CellText(fmt.rows[i][j]))])]

\* a CSV reader gives back the column names and then every row's values
C12_RoundTrip ==
    (fmt.fn = "csv" /\ fmt.rows # <<>>)
        => ParseCsv(fmt.out) =
             <<Columns(fmt.description)>> \o [i \in 1..Len(fmt.rows) |-> RowText(fmt.rows[i])]

\* an empty result set: no CSV text at all, an empty JSON array, no JSON line
C12_EmptyResult ==
    fmt.rows = <<>>
        => /\ fmt.fn = "csv" => fmt.out = <<>>
           /\ fmt.fn = "json" => fmt.out = <<"[", "]">>
           /\ fmt.fn = "jsonl" => fmt.out = <<>>

\* C12: format_csv on a non-empty result set emits the header line of the raw
\* column names and one line per row in row order, a field with a comma, a
\* double quote or a newline wrapped in double quotes with its quotes doubled
\* and a null as an empty field, so that a conformant CSV reader gives back
\* the original values; on an empty result set format_csv returns the empty
\* string, format_json an empty array and format_jsonl no content.
C12_FormatCsv == C12_Layout /\ C12_RoundTrip /\ C12_EmptyResult


\* a create_table call that built a table out of the caller's schema
Created ==
    /\ call.op = "create_table"
    /\ call.out.exc = "none"
    /\ ~call.before[call.table].present

\* the caller's schema has a column that insert, update and import leave out
\* of the positional binding
CallerHasBoundOutColumn(schema) ==
    \E i \in 1..Len(schema) : split1(schema[i], ":")[1] = STR_id

\* the number of values insert, update and import expect for a table
ExpectedValues(tables, table) == Len(NonIdColumns(table_info(tables, table)))

\* C13: schema creation and value binding agree on which column is the id:
\* create_table omits the synthetic id exactly when the caller's schema has a
\* column that insert, update and import exclude from positional binding, so
\* for every table the number of values they expect is the number of the
\* table's columns minus one, however the caller spells the id column.
C13_IdAgreement ==
    /\ Created =>
          (call.out.cols[1] # SyntheticId <=> CallerHasBoundOutColumn(call.values))
    /\ \A table \in TableNames :
          db.tables[table].present =>
              ExpectedValues(db.tables, table) = Len(db.tables[table].cols) - 1
    /\ pc = "importing" =>
          imp.expected = Len(db.tables[args.table].cols) - 1

====
